---- MODULE Spec2Model ----
(***************************************************************************)
(* Model of the Undirected graph of graph.go: the adjacency matrix, the    *)
(* adjacency lists, the weight matrix, the degree and edge counters, the   *)
(* mutators AddEdge / AddEdgeWeight / Clear, the accessors, and the two    *)
(* file loaders readFromFile / readWeightedFromFile.                       *)
(*                                                                         *)
(* Go slices are functions over 0..len-1.  An index outside a slice is a   *)
(* run-time panic ("index out of range"); a call that panics changes       *)
(* nothing it had not already written.  float64 weights are modelled by    *)
(* small integers: the code only stores, copies and returns them.          *)
(* The unexported graph type of the earlier revisions kept beside          *)
(* Undirected (no lists, no weights, no guards in AddEdge) is not modelled.*)
(***************************************************************************)
EXTENDS Integers, Sequences, FiniteSets, TLC

VARIABLES
    numVertices,   \* g.numVertices
    numEdges,      \* g.numEdges
    degrees,       \* g.degrees      []int
    adjacencies,   \* g.adjacencies  [][]bool
    edges,         \* g.edges        [][]int (adjacency lists)
    weights,       \* g.weights      [][]float64
    ret,           \* outcome of the last call on the graph
    tokens,        \* the words of the file being loaded
    pos,           \* number of words the scanner has delivered
    text,          \* f.Text(): the word of the last f.Scan(), "" when none
    vertex1,       \* loader local
    vertex2,       \* loader local
    weight,        \* loader local (weighted loader)
    weighted,      \* TRUE in readWeightedFromFile
    pc             \* loader position

gvars == <<numVertices, numEdges, degrees, adjacencies, edges, weights>>
lvars == <<tokens, pos, text, vertex1, vertex2, weight, weighted, pc>>
vars == <<numVertices, numEdges, degrees, adjacencies, edges, weights, ret,
          tokens, pos, text, vertex1, vertex2, weight, weighted, pc>>

\* ------------------------------------------------------------------ bounds

MaxVertices == 3
MaxEdges == 3
MaxTokens == 5

\* weights handed to AddEdgeWeight; AddEdge passes DefaultWeight
Weights == {0, 1}
DefaultWeight == 1

\* ------------------------------------------------------------- the graph

Vertices == 0 .. (numVertices - 1)

\* an index expression s[i] on a slice of length numVertices does not panic
InRange(i) == i \in Vertices

\* vertex arguments tried: every vertex, one below and one above the range
Args == -1 .. numVertices

Ret(op, branch, n, b, l) ==
    [op |-> op, branch |-> branch, int |-> n, bool |-> b, list |-> l]

\* make([]int, n), make([][]bool, n) with rows make([]bool, n), ...
ClearedDegrees(n) == [i \in 0 .. (n - 1) |-> 0]
ClearedAdjacencies(n) == [i \in 0 .. (n - 1) |-> [j \in 0 .. (n - 1) |-> FALSE]]
ClearedEdges(n) == [i \in 0 .. (n - 1) |-> << >>]
ClearedWeights(n) == [i \in 0 .. (n - 1) |-> [j \in 0 .. (n - 1) |-> 0]]

\* Clear that forgets to reallocate degrees
ClearBodyKeepsDegrees ==
    /\ numEdges' = 0
    /\ degrees' = degrees
    /\ adjacencies' = ClearedAdjacencies(numVertices')
    /\ edges' = ClearedEdges(numVertices')
    /\ weights' = ClearedWeights(numVertices')

\* Clear, lines 297-308: every field reallocated for numVertices
ClearBody ==
    /\ numEdges' = 0
    /\ degrees' = ClearedDegrees(numVertices')
    /\ adjacencies' = ClearedAdjacencies(numVertices')
    /\ edges' = ClearedEdges(numVertices')
    /\ weights' = ClearedWeights(numVertices')

\* IsConnected: the canonical cell, row = larger vertex
IsConnected(v1, v2) ==
    IF v1 > v2 THEN adjacencies[v1][v2] ELSE adjacencies[v2][v1]

\* adjacencies[hi][lo] is evaluated: both indices must be in range
IsConnectedPanics(v1, v2) == ~(InRange(v1) /\ InRange(v2))

\* Weight with the -999 sentinel of an earlier revision for an absent edge
WeightSentinel(v1, v2) ==
    IF adjacencies[v1][v2] \/ adjacencies[v2][v1] THEN weights[v1][v2] ELSE -999

\* Weight: either cell of the matrix set, then weights[vertex1][vertex2], else 0
Weight(v1, v2) ==
    IF adjacencies[v1][v2] \/ adjacencies[v2][v1] THEN weights[v1][v2] ELSE 0

\* adjacencies[vertex1][vertex2] is evaluated first
WeightPanics(v1, v2) == ~(InRange(v1) /\ InRange(v2))

Degree(i) == degrees[i]

GetEdges(v) == edges[v]

Size == numEdges

Order == numVertices

\* AddEdgeWeight without the !IsConnected guard
AddBranchNoExistsCheck(v1, v2) ==
    IF v1 = v2 THEN "selfloop"
    ELSE IF IsConnectedPanics(v1, v2) THEN "panic"
    ELSE "added"

\* AddEdgeWeight without the vertex1 != vertex2 guard
AddBranchNoSelfLoopCheck(v1, v2) ==
    IF IsConnectedPanics(v1, v2) THEN "panic"
    ELSE IF IsConnected(v1, v2) THEN "exists"
    ELSE "added"

\* the branch AddEdgeWeight takes: vertex1 != vertex2 is tested first and
\* short-circuits, then IsConnected indexes the matrix
AddBranch(v1, v2) ==
    IF v1 = v2 THEN "selfloop"
    ELSE IF IsConnectedPanics(v1, v2) THEN "panic"
    ELSE IF IsConnected(v1, v2) THEN "exists"
    ELSE "added"

\* the writes with only degrees[vertex1] incremented
InsertEdgeOneDegree(v1, v2, w) ==
    LET hi == IF v1 < v2 THEN v2 ELSE v1
        lo == IF v1 < v2 THEN v1 ELSE v2
    IN  /\ numEdges' = numEdges + 1
        /\ degrees' = [degrees EXCEPT ![v1] = @ + 1]
        /\ adjacencies' = [adjacencies EXCEPT ![hi][lo] = TRUE]
        /\ weights' = [weights EXCEPT ![hi][lo] = w, ![lo][hi] = w]
        /\ edges' = [edges EXCEPT ![hi] = Append(@, lo), ![lo] = Append(@, hi)]

\* the writes with the weight stored in one cell only
InsertEdgeOneWeight(v1, v2, w) ==
    LET hi == IF v1 < v2 THEN v2 ELSE v1
        lo == IF v1 < v2 THEN v1 ELSE v2
    IN  /\ numEdges' = numEdges + 1
        /\ degrees' = [degrees EXCEPT ![v1] = @ + 1, ![v2] = @ + 1]
        /\ adjacencies' = [adjacencies EXCEPT ![hi][lo] = TRUE]
        /\ weights' = [weights EXCEPT ![hi][lo] = w]
        /\ edges' = [edges EXCEPT ![hi] = Append(@, lo), ![lo] = Append(@, hi)]

\* the writes with the list of the larger vertex only
InsertEdgeOneList(v1, v2, w) ==
    LET hi == IF v1 < v2 THEN v2 ELSE v1
        lo == IF v1 < v2 THEN v1 ELSE v2
    IN  /\ numEdges' = numEdges + 1
        /\ degrees' = [degrees EXCEPT ![v1] = @ + 1, ![v2] = @ + 1]
        /\ adjacencies' = [adjacencies EXCEPT ![hi][lo] = TRUE]
        /\ weights' = [weights EXCEPT ![hi][lo] = w, ![lo][hi] = w]
        /\ edges' = [edges EXCEPT ![hi] = Append(@, lo)]

\* the writes of AddEdgeWeight on a new edge (lines 211-227)
InsertEdge(v1, v2, w) ==
    LET hi == IF v1 < v2 THEN v2 ELSE v1
        lo == IF v1 < v2 THEN v1 ELSE v2
    IN  /\ numEdges' = numEdges + 1
        /\ degrees' = [degrees EXCEPT ![v1] = @ + 1, ![v2] = @ + 1]
        /\ adjacencies' = [adjacencies EXCEPT ![hi][lo] = TRUE]
        /\ weights' = [weights EXCEPT ![hi][lo] = w, ![lo][hi] = w]
        /\ edges' = [edges EXCEPT ![hi] = Append(@, lo), ![lo] = Append(@, hi)]

\* AddEdgeWeight on the graph fields
AddEdgeWeightBody(v1, v2, w) ==
    /\ numVertices' = numVertices
    /\ IF AddBranch(v1, v2) = "added"
       THEN InsertEdge(v1, v2, w)
       ELSE UNCHANGED <<numEdges, degrees, adjacencies, edges, weights>>

\* model bound: a new edge is inserted only below MaxEdges
Room(v1, v2) == AddBranch(v1, v2) = "added" => numEdges < MaxEdges

\* ------------------------------------------------------------ operations

AddEdgeWeight(v1, v2, w) ==
    /\ Room(v1, v2)
    /\ ret' = Ret("AddEdgeWeight", AddBranch(v1, v2), 0, FALSE, << >>)
    /\ AddEdgeWeightBody(v1, v2, w)
    /\ UNCHANGED lvars

AddEdge(v1, v2) ==
    /\ Room(v1, v2)
    /\ ret' = Ret("AddEdge", AddBranch(v1, v2), 0, FALSE, << >>)
    /\ AddEdgeWeightBody(v1, v2, DefaultWeight)
    /\ UNCHANGED lvars

\* Clear returns nothing; ret.int records how many edges the call dropped
Clear ==
    /\ numVertices' = numVertices
    /\ ClearBody
    /\ ret' = Ret("Clear", "ok", numEdges, FALSE, << >>)
    /\ UNCHANGED lvars

DegreeCall(i) ==
    /\ ret' = IF InRange(i)
              THEN Ret("Degree", "ok", Degree(i), FALSE, << >>)
              ELSE Ret("Degree", "panic", 0, FALSE, << >>)
    /\ UNCHANGED <<gvars, lvars>>

IsConnectedCall(v1, v2) ==
    /\ ret' = IF IsConnectedPanics(v1, v2)
              THEN Ret("IsConnected", "panic", 0, FALSE, << >>)
              ELSE Ret("IsConnected", "ok", 0, IsConnected(v1, v2), << >>)
    /\ UNCHANGED <<gvars, lvars>>

WeightCall(v1, v2) ==
    /\ ret' = IF WeightPanics(v1, v2)
              THEN Ret("Weight", "panic", 0, FALSE, << >>)
              ELSE Ret("Weight", "ok", Weight(v1, v2), FALSE, << >>)
    /\ UNCHANGED <<gvars, lvars>>

GetEdgesCall(v) ==
    /\ ret' = IF InRange(v)
              THEN Ret("GetEdges", "ok", 0, FALSE, GetEdges(v))
              ELSE Ret("GetEdges", "panic", 0, FALSE, << >>)
    /\ UNCHANGED <<gvars, lvars>>

SizeCall ==
    /\ ret' = Ret("Size", "ok", Size, FALSE, << >>)
    /\ UNCHANGED <<gvars, lvars>>

OrderCall ==
    /\ ret' = Ret("Order", "ok", Order, FALSE, << >>)
    /\ UNCHANGED <<gvars, lvars>>

\* NewGraph(n): numVertices = n, then Clear
Init ==
    /\ numVertices \in 0 .. MaxVertices
    /\ numEdges = 0
    /\ degrees = ClearedDegrees(numVertices)
    /\ adjacencies = ClearedAdjacencies(numVertices)
    /\ edges = ClearedEdges(numVertices)
    /\ weights = ClearedWeights(numVertices)
    /\ ret = Ret("NewGraph", "ok", 0, FALSE, << >>)
    /\ tokens = << >>
    /\ pos = 0
    /\ text = ""
    /\ vertex1 = 0
    /\ vertex2 = 0
    /\ weight = 0
    /\ weighted = FALSE
    /\ pc = "api"

Next ==
    \/ \E v1 \in Args, v2 \in Args : AddEdge(v1, v2)
    \/ \E v1 \in Args, v2 \in Args, w \in Weights : AddEdgeWeight(v1, v2, w)
    \/ Clear
    \/ \E i \in Args : DegreeCall(i)
    \/ \E v1 \in Args, v2 \in Args : IsConnectedCall(v1, v2)
    \/ \E v1 \in Args, v2 \in Args : WeightCall(v1, v2)
    \/ \E v \in Args : GetEdgesCall(v)
    \/ SizeCall
    \/ OrderCall

Spec == Init /\ [][Next]_vars

\* ------------------------------------------------------------ the loaders

\* the words a file may hold: integer literals and one word that is no number
Words == {"-1", "0", "1", "2", "3", "x"}

Numerals == {"-1", "0", "1", "2", "3"}

\* strconv.Atoi: the value, and 0 with an error for a word that is no
\* integer, the empty word included
AtoiVal(t) ==
    CASE t = "-1" -> -1
      [] t = "0" -> 0
      [] t = "1" -> 1
      [] t = "2" -> 2
      [] t = "3" -> 3
      [] OTHER -> 0

AtoiErr(t) == t \notin Numerals

\* strconv.ParseFloat on the same words
ParseFloatVal(t) == AtoiVal(t)

\* f.Scan() then f.Text(): the next word, or "" once the words are used up
\* (Scan returns false and leaves an empty token; the code ignores the bool)
Scan ==
    IF pos < Len(tokens)
    THEN pos' = pos + 1 /\ text' = tokens[pos + 1]
    ELSE pos' = pos /\ text' = ""

\* the loop condition of both loaders: vertex1 >= 0, nothing else
LoopHead(v) == IF v >= 0 THEN "readV1" ELSE "done"

\* f.Scan(); g.numVertices = Atoi(f.Text()); g.Clear(); vertex1 := Atoi(f.Text())
\* make panics on a negative length, after numEdges = 0 was written
LoadStart ==
    /\ pc = "start"
    /\ Scan
    /\ numVertices' = AtoiVal(text')
    /\ IF numVertices' < 0
       THEN /\ numEdges' = 0
            /\ UNCHANGED <<degrees, adjacencies, edges, weights, vertex1>>
            /\ pc' = "panic"
       ELSE /\ ClearBody
            /\ vertex1' = AtoiVal(text')
            /\ pc' = LoopHead(vertex1')
    /\ UNCHANGED <<ret, tokens, vertex2, weight, weighted>>

\* f.Scan(); vertex1, err = Atoi(f.Text()); the error is printed only
LoadReadV1 ==
    /\ pc = "readV1"
    /\ Scan
    /\ vertex1' = AtoiVal(text')
    /\ pc' = "readV2"
    /\ UNCHANGED <<gvars, ret, tokens, vertex2, weight, weighted>>

\* f.Scan(); vertex2, err = Atoi(f.Text()); the error is printed only
LoadReadV2 ==
    /\ pc = "readV2"
    /\ Scan
    /\ vertex2' = AtoiVal(text')
    /\ pc' = IF weighted THEN "readW" ELSE "add"
    /\ UNCHANGED <<gvars, ret, tokens, vertex1, weight, weighted>>

\* f.Scan(); weight, err = ParseFloat(f.Text(), 64); the error is printed only
LoadReadW ==
    /\ pc = "readW"
    /\ Scan
    /\ weight' = ParseFloatVal(text')
    /\ pc' = "add"
    /\ UNCHANGED <<gvars, ret, tokens, vertex1, vertex2, weighted>>

\* if vertex1 >= 0 && vertex2 >= 0 { AddEdge / AddEdgeWeight }, then the
\* loop condition
LoadAdd ==
    /\ pc = "add"
    /\ IF vertex1 >= 0 /\ vertex2 >= 0
       THEN /\ AddEdgeWeightBody(vertex1, vertex2,
                                 IF weighted THEN weight ELSE DefaultWeight)
            /\ ret' = Ret(IF weighted THEN "AddEdgeWeight" ELSE "AddEdge",
                          AddBranch(vertex1, vertex2), 0, FALSE, << >>)
            /\ pc' = IF AddBranch(vertex1, vertex2) = "panic"
                     THEN "panic"
                     ELSE LoopHead(vertex1)
       ELSE /\ UNCHANGED <<gvars, ret>>
            /\ pc' = LoopHead(vertex1)
    /\ UNCHANGED <<tokens, pos, text, vertex1, vertex2, weight, weighted>>

RECURSIVE SeqsUpTo(_, _)
SeqsUpTo(S, n) ==
    IF n = 0 THEN {<< >>}
    ELSE LET shorter == SeqsUpTo(S, n - 1)
         IN  shorter \cup {Append(q, x) : q \in shorter, x \in S}

\* NewGraphFromFile / NewWeightedGraphFromFile: new(Undirected), Clear()
\* with numVertices = 0, then the loader on the words of the file
LoadInit ==
    /\ numVertices = 0
    /\ numEdges = 0
    /\ degrees = ClearedDegrees(0)
    /\ adjacencies = ClearedAdjacencies(0)
    /\ edges = ClearedEdges(0)
    /\ weights = ClearedWeights(0)
    /\ ret = Ret("Clear", "ok", 0, FALSE, << >>)
    /\ tokens \in SeqsUpTo(Words, MaxTokens)
    /\ pos = 0
    /\ text = ""
    /\ vertex1 = 0
    /\ vertex2 = 0
    /\ weight = 0
    /\ weighted \in BOOLEAN
    /\ pc = "start"

LoadNext ==
    \/ LoadStart
    \/ LoadReadV1
    \/ LoadReadV2
    \/ LoadReadW
    \/ LoadAdd

\* the loader is one sequential routine: it takes its next step
LoadSpec == LoadInit /\ [][LoadNext]_vars /\ WF_vars(LoadNext)

\* ---------------------------------------------------------------- claims

RECURSIVE SumDegrees(_)
SumDegrees(n) == IF n = 0 THEN 0 ELSE Degree(n - 1) + SumDegrees(n - 1)

\* C1: in every reachable state Size() * 2 equals the sum of Degree(v) over
\* the vertices 0 .. Order()-1.
DegreeSumLaw == Size * 2 = SumDegrees(Order)

DegreeSumWitness ==
    /\ Size >= 2
    /\ ret.op = "AddEdgeWeight"
    /\ ret.branch = "added"
    /\ \E v \in Vertices : Degree(v) = 2

\* C2: AddEdge / AddEdgeWeight on an edge that exists, in either argument
\* order and with any weight, leaves every field of the graph unchanged, so
\* the weight of the first insertion stays.  Stated by contraposition: a step
\* that changes a field of the graph is no such call.
IdempotentInsertion ==
    [][~(UNCHANGED gvars) =>
          \A u \in Vertices, v \in Vertices :
              (u # v /\ IsConnected(u, v)) =>
                  \A w \in Weights :
                      ~(AddEdge(u, v) \/ AddEdge(v, u)
                            \/ AddEdgeWeight(u, v, w) \/ AddEdgeWeight(v, u, w))]_vars

IdempotentInsertionWitness ==
    /\ ret.op = "AddEdge"
    /\ ret.branch = "exists"
    /\ Size = 1
    /\ \E u \in Vertices, v \in Vertices :
          u # v /\ IsConnected(u, v) /\ Weight(u, v) = 0 /\ Weight(v, u) = 0

\* C3: AddEdge(v, v) and AddEdgeWeight(v, v, w) on an in-range v change no
\* field of the graph (a step that changes one is no such call), and
\* IsConnected(v, v) is false in every state.
SelfLoopRejected ==
    /\ [](\A v \in Vertices : ~IsConnected(v, v))
    /\ [][~(UNCHANGED gvars) =>
             \A v \in Vertices, w \in Weights :
                 ~(AddEdge(v, v) \/ AddEdgeWeight(v, v, w))]_vars

SelfLoopWitness ==
    /\ ret.op = "AddEdgeWeight"
    /\ ret.branch = "selfloop"
    /\ Size >= 1

\* C4: IsConnected and Weight are symmetric in their arguments in every
\* state, and right after AddEdge(u, v) on distinct in-range vertices the
\* edge is connected in both argument orders.
Symmetry ==
    /\ [](\A u \in Vertices, v \in Vertices :
              /\ IsConnected(u, v) = IsConnected(v, u)
              /\ Weight(u, v) = Weight(v, u))
    /\ [][ret'.op = "AddEdge" =>
             \A u \in Vertices, v \in Vertices :
                 (u # v /\ AddEdge(u, v)) =>
                     ((IsConnected(u, v))' /\ (IsConnected(v, u))')]_vars

SymmetryWitness ==
    /\ ret.op = "AddEdge"
    /\ ret.branch = "added"
    /\ \E u \in Vertices, v \in Vertices :
          /\ u < v
          /\ IsConnected(u, v) /\ IsConnected(v, u)
          /\ Weight(u, v) = DefaultWeight /\ Weight(v, u) = DefaultWeight
    /\ \E u \in Vertices, v \in Vertices :
          u < v /\ Weight(u, v) = 0 /\ IsConnected(v, u)

Neighbours(v) == {u \in Vertices : IsConnected(u, v)}

ListSet(v) == {GetEdges(v)[k] : k \in 1 .. Len(GetEdges(v))}

\* C5: for every vertex v, Degree(v) is the length of v's adjacency list and
\* the number of vertices connected to v; the list holds exactly those
\* vertices, each once, so u is in v's list iff v is in u's list.
MatrixListDegreeConsistent ==
    \A v \in Vertices :
        /\ Degree(v) = Len(GetEdges(v))
        /\ Degree(v) = Cardinality(Neighbours(v))
        /\ ListSet(v) = Neighbours(v)
        /\ Cardinality(ListSet(v)) = Len(GetEdges(v))
        /\ \A u \in Vertices : (u \in ListSet(v)) <=> (v \in ListSet(u))

ConsistencyWitness ==
    \E v \in Vertices :
        /\ Degree(v) = 2
        /\ Len(GetEdges(v)) = 2
        /\ GetEdges(v)[1] > GetEdges(v)[2]

\* the fields NewGraph(n) constructs
FreshGraph(n) ==
    <<n, 0, ClearedDegrees(n), ClearedAdjacencies(n), ClearedEdges(n),
      ClearedWeights(n)>>

\* C6: Clear leaves Size() = 0, every degree 0, no pair connected, every
\* adjacency list empty, Weight reporting its no-edge result (0) for every
\* pair, and Order() as it was; the fields are those of a freshly
\* constructed graph of that order, so a later insertion of any pair of
\* distinct vertices is a new edge.
ClearResetsFully ==
    [][Clear =>
          /\ Size' = 0
          /\ Order' = Order
          /\ gvars' = FreshGraph(Order)
          /\ \A v \in Vertices :
                /\ (Degree(v))' = 0
                /\ (GetEdges(v))' = << >>
                /\ \A u \in Vertices :
                      /\ ~(IsConnected(u, v))'
                      /\ (Weight(u, v))' = 0
                      /\ ~(AddBranch(u, v) \in {"exists", "panic"})']_vars

ClearWitness ==
    /\ ret.op = "Clear"
    /\ ret.int >= 2
    /\ Size = 0
    /\ Order >= 3

\* C7 as stated: the result of Weight on an absent edge never equals the
\* result of Weight on an edge stored with weight 0.
AbsentWeightDistinctFromZero ==
    \A u \in Vertices, v \in Vertices, x \in Vertices, y \in Vertices :
        (/\ u # v
         /\ ~IsConnected(u, v)
         /\ IsConnected(x, y)
         /\ weights[x][y] = 0) => Weight(u, v) # Weight(x, y)

\* C7 amended: Weight returns the weight the edge was inserted with, in
\* either argument order, and 0 for an absent edge; the no-edge result
\* differs from every non-zero weight only.
WeightStoredOrZero ==
    /\ [](\A u \in Vertices, v \in Vertices :
              /\ ~IsConnected(u, v) => Weight(u, v) = 0
              /\ Weight(u, v) # 0 => IsConnected(u, v))
    /\ [][ret'.branch = "added" =>
             \A u \in Vertices, v \in Vertices, w \in Weights :
                 (AddBranch(u, v) = "added" /\ AddEdgeWeight(u, v, w)) =>
                     ((Weight(u, v))' = w /\ (Weight(v, u))' = w)]_vars

WeightWitness ==
    /\ ret.op = "Weight"
    /\ ret.branch = "ok"
    /\ ret.int = 0
    /\ \E u \in Vertices, v \in Vertices : u # v /\ ~IsConnected(u, v)
    /\ \E x \in Vertices, y \in Vertices : IsConnected(x, y) /\ weights[x][y] = 0
    /\ \E x \in Vertices, y \in Vertices : IsConnected(x, y) /\ Weight(x, y) = 1

\* C8 as stated: every call with a vertex argument outside [0, numVertices)
\* ends in an out-of-range failure and leaves the graph unchanged.
OutOfRangeAlwaysFails ==
    [][\A u \in Args, v \in Args :
          /\ (~InRange(u) \/ ~InRange(v)) =>
                /\ \A w \in Weights :
                      (AddEdge(u, v) \/ AddEdgeWeight(u, v, w)) =>
                          (ret'.branch = "panic" /\ UNCHANGED gvars)
                /\ (IsConnectedCall(u, v) \/ WeightCall(u, v)) =>
                      (ret'.branch = "panic" /\ UNCHANGED gvars)
          /\ ~InRange(u) =>
                ((DegreeCall(u) \/ GetEdgesCall(u)) =>
                    (ret'.branch = "panic" /\ UNCHANGED gvars))]_vars

\* group k of the file: the words after the vertex count, in pairs, or in
\* triples in the weighted file
Stride == IF weighted THEN 3 ELSE 2

GroupStart(k) == 2 + (k - 1) * Stride

GroupComplete(k) == GroupStart(k) + Stride - 1 <= Len(tokens)

GroupParses(k) ==
    \A i \in GroupStart(k) .. (GroupStart(k) + Stride - 1) : ~AtoiErr(tokens[i])

GroupV1(k) == AtoiVal(tokens[GroupStart(k)])

GroupV2(k) == AtoiVal(tokens[GroupStart(k) + 1])

Groups == {k \in 1 .. Len(tokens) : GroupComplete(k)}

\* a vertex count n >= 0 followed by whole groups of in-range vertices
WellFormedStream ==
    /\ Len(tokens) >= 1
    /\ ~AtoiErr(tokens[1])
    /\ AtoiVal(tokens[1]) >= 0
    /\ (Len(tokens) - 1) % Stride = 0
    /\ \A k \in Groups :
          /\ GroupParses(k)
          /\ GroupV1(k) \in 0 .. (AtoiVal(tokens[1]) - 1)
          /\ GroupV2(k) \in 0 .. (AtoiVal(tokens[1]) - 1)

\* the graph the file describes: its distinct pairs that are no self-loops
FileEdges ==
    {{GroupV1(k), GroupV2(k)} : k \in {j \in Groups : GroupV1(j) # GroupV2(j)}}

GraphEdges ==
    {{p[1], p[2]} : p \in {q \in Vertices \X Vertices : IsConnected(q[1], q[2])}}

LoadedAsWritten ==
    /\ Order = AtoiVal(tokens[1])
    /\ GraphEdges = FileEdges
    /\ Size = Cardinality(FileEdges)

\* C9 as stated: on a well-formed file the load loop finishes once the
\* words are used up, with the graph the file describes.
LoadTerminates == WellFormedStream => <>(pc = "done" /\ LoadedAsWritten)

\* C10 as stated: no edge comes from a word that does not parse or from the
\* missing half of a truncated group: every edge of the graph is a whole,
\* well-parsed group of the file.
LoadNeverAddsBadEdge ==
    \A u \in Vertices, v \in Vertices :
        IsConnected(u, v) =>
            \E k \in Groups :
                GroupParses(k) /\ {GroupV1(k), GroupV2(k)} = {u, v}

====
